---- MODULE Spec2Model ----
(***************************************************************************)
(* A model of the medical-symptom RAG repository:                          *)
(*   src/rag/chunker.py       chunk_text, create_chunks_from_csv           *)
(*   src/rag/build_index.py   build_faiss_index, save_index_and_metadata   *)
(*   src/rag/retriever.py     MedlineRetriever                             *)
(*   src/rag/rag_pipeline.py  RAGPipeline, ConversationManager             *)
(*                                                                         *)
(* Text is a sequence of one-character strings.  Three specifications      *)
(* share the variables; each one drives one part of the program and keeps  *)
(* the variables of the other parts at their initial value:                *)
(*   SpecChunk  one call of chunk_text, its while loop one step at a time  *)
(*   SpecIndex  the offline build, the store, MedlineRetriever             *)
(*   SpecConv   ConversationManager sessions over one shared RAGPipeline   *)
(***************************************************************************)
EXTENDS Integers, Sequences, FiniteSets, TLC

VARIABLES
    \* ---- chunk_text(text, chunk_size, overlap): one call
    ctText,        \* argument text
    ctSize,        \* argument chunk_size
    ctOverlap,     \* argument overlap
    ctPc,          \* "entry" | "loop" | "done" (returned) | "raised"
    ctWords,       \* local words
    ctChunks,      \* local chunks
    ctStart,       \* local start
    ctResult,      \* the returned list (<<>> until the call returns)
    \* ---- offline build and retriever
    csvRows,       \* the rows of the cleaned CSV (df of create_chunks_from_csv)
    bPc,           \* position of the build script
    bRow,          \* number of CSV rows already iterated
    allChunks,     \* local all_chunks of create_chunks_from_csv
    chunkId,       \* local chunk_id of create_chunks_from_csv
    chunksDf,      \* chunks_df returned by create_chunks_from_csv
    builtIndex,    \* the vectors of the index build_faiss_index returned
    bError,        \* the exception that ended the build script, or "none"
    store,         \* the store directory: index file and metadata file
    retriever,     \* the loaded MedlineRetriever (index, chunks_df) or NoRetriever
    lastCall,      \* the last retrieve call: arguments, search output, outcome
    context,       \* the string format_context made of the last call's results
    \* ---- conversation sessions
    stage,         \* stage[s]: ConversationManager.stage of session s
    history,       \* history[s]: ConversationManager.conversation_history
    pmPc,          \* pmPc[s]: position inside process_message
    pmInput,       \* pmInput[s]: user_input of the running call
    pmResults,     \* pmResults[s]: results held by generate_diagnosis
    calls,         \* calls[s]: process_message calls started
    nRetrieve,     \* nRetrieve[s]: calls of retriever.retrieve made
    nGenerate,     \* nGenerate[s]: calls of client.chat.completions.create made
    outcomes,      \* outcomes[s]: the outcome of each finished call, in order
    failures,      \* failures[s]: per finished call, the exception its retrieval or
                   \* generation step raised, or "none"
    pipeline,      \* the shared RAGPipeline: its retriever
    \* ---- UI sessions (st.session_state of each browser session)
    uiMessages,    \* uiMessages[s]: session_state.messages
    uiComplete,    \* uiComplete[s]: session_state.diagnosis_complete
    uiSources,     \* uiSources[s]: session_state.sources (NoSources until set)
    uiPage         \* uiPage[s]: what the last run of main() left on the page

chunkVars == <<ctText, ctSize, ctOverlap, ctPc, ctWords, ctChunks, ctStart, ctResult>>
indexVars == <<csvRows, bPc, bRow, allChunks, chunkId, chunksDf, builtIndex, bError,
               store, retriever, lastCall, context>>
convVars == <<stage, history, pmPc, pmInput, pmResults, calls, nRetrieve, nGenerate,
              outcomes, failures, pipeline>>
uiVars == <<uiMessages, uiComplete, uiSources, uiPage>>
vars == <<chunkVars, indexVars, convVars, uiVars>>

-----------------------------------------------------------------------------
(* Bounds of the model *)

\* longest text handed to chunk_text in SpecChunk, in characters
MaxLen == 7
\* largest chunk_size (and overlap) tried in SpecChunk
MaxChunkSize == 3
\* iterations after which a while loop that cannot end is no longer followed
MaxIter == 5

\* characters of the texts tried in SpecChunk: two letters and whitespace
Letters == {"a", "b"}
Whitespace == {" "}
Alphabet == Letters \cup Whitespace

-----------------------------------------------------------------------------
(* Python built-ins used by the source *)

Min(a, b) == IF a < b THEN a ELSE b
Max(a, b) == IF a > b THEN a ELSE b

\* s[lo:hi] with Python's treatment of negative and out-of-range bounds;
\* positions are 0-based as in the source
PySlice(s, lo, hi) ==
    LET n == Len(s)
        l == IF lo < 0 THEN Max(n + lo, 0) ELSE Min(lo, n)
        h == IF hi < 0 THEN Max(n + hi, 0) ELSE Min(hi, n)
    IN  IF l >= h THEN <<>> ELSE SubSeq(s, l + 1, h)

\* str.split(): the maximal runs of non-whitespace characters, in order
RECURSIVE SplitFrom(_, _, _, _)
SplitFrom(s, i, cur, acc) ==
    IF i > Len(s)
    THEN IF cur = <<>> THEN acc ELSE Append(acc, cur)
    ELSE IF s[i] \in Whitespace
         THEN SplitFrom(s, i + 1, <<>>, IF cur = <<>> THEN acc ELSE Append(acc, cur))
         ELSE SplitFrom(s, i + 1, Append(cur, s[i]), acc)

Split(s) == SplitFrom(s, 1, <<>>, <<>>)

\* ' '.join(ws)
RECURSIVE Join(_)
Join(ws) ==
    IF ws = <<>> THEN <<>>
    ELSE IF Len(ws) = 1 THEN ws[1]
    ELSE ws[1] \o <<" ">> \o Join(Tail(ws))

-----------------------------------------------------------------------------
(* chunker.py: chunk_text *)

\* line 21: the test that selects the single-chunk return
FitsOneChunk(words, chunk_size) == Len(words) <= chunk_size

\* (mutant of SingleChunk: the words re-joined instead of the text itself)
SingleChunkJoined(text, words) == <<Join(words)>>

\* line 22: return [text]
SingleChunk(text, words) == <<text>>

\* lines 26-28: the chunk appended by one iteration
WindowChunk(words, start, chunk_size) ==
    Join(PySlice(words, start, start + chunk_size))

\* (mutant of NextStart: the overlap is not subtracted)
NextStartNoOverlap(start, chunk_size, overlap) == start + chunk_size

\* lines 26 and 31: start = end - overlap
NextStart(start, chunk_size, overlap) == (start + chunk_size) - overlap

\* line 25 (and the break of lines 34-35, which tests the same condition)
LoopContinues(words, start) == start < Len(words)

\* lines 18-22: split, then either return [text] or enter the loop
ChunkEntry ==
    /\ ctPc = "entry"
    /\ ctWords' = Split(ctText)
    /\ ctChunks' = <<>>
    /\ IF FitsOneChunk(Split(ctText), ctSize)
       THEN /\ ctPc' = "done"
            /\ ctResult' = SingleChunk(ctText, Split(ctText))
            /\ ctStart' = ctStart
       ELSE /\ ctStart' = 0
            /\ ctPc' = "loop"
            /\ ctResult' = ctResult
    /\ UNCHANGED <<ctText, ctSize, ctOverlap>>

\* lines 25-35: one iteration of the while loop.  A loop whose step
\* chunk_size - overlap is not positive never ends; it is followed for
\* MaxIter iterations.
ChunkLoop ==
    /\ ctPc = "loop"
    /\ LoopContinues(ctWords, ctStart)
    /\ (ctOverlap < ctSize \/ Len(ctChunks) < MaxIter)
    /\ ctChunks' = Append(ctChunks, WindowChunk(ctWords, ctStart, ctSize))
    /\ ctStart' = NextStart(ctStart, ctSize, ctOverlap)
    /\ UNCHANGED <<ctText, ctSize, ctOverlap, ctPc, ctWords, ctResult>>

\* lines 25/34-37: the loop ends and chunks is returned
ChunkReturn ==
    /\ ctPc = "loop"
    /\ ~LoopContinues(ctWords, ctStart)
    /\ ctPc' = "done"
    /\ ctResult' = ctChunks
    /\ UNCHANGED <<ctText, ctSize, ctOverlap, ctWords, ctChunks, ctStart>>

\* the whole of chunk_text as a function, for the callers that pass a step
\* chunk_size - overlap > 0 (create_chunks_from_csv)
RECURSIVE ChunkLoopFrom(_, _, _, _, _)
ChunkLoopFrom(words, start, chunk_size, overlap, chunks) ==
    IF LoopContinues(words, start)
    THEN ChunkLoopFrom(words, NextStart(start, chunk_size, overlap), chunk_size, overlap,
                       Append(chunks, WindowChunk(words, start, chunk_size)))
    ELSE chunks

chunk_text(text, chunk_size, overlap) ==
    IF FitsOneChunk(Split(text), chunk_size)
    THEN SingleChunk(text, Split(text))
    ELSE ChunkLoopFrom(Split(text), 0, chunk_size, overlap, <<>>)

-----------------------------------------------------------------------------
(* chunker.py: create_chunks_from_csv *)

\* most CSV rows of a corpus
MaxDocs == 2
\* most words of a summary
MaxSummaryWords == 3
\* chunk_size and overlap passed at line 64.  The source passes 400 and 50;
\* the model passes the same call with both scaled down so that summaries
\* of a few words span several windows.
DocChunkSize == 3
DocOverlap == 1

\* a missing CSV cell, as pandas reads it (float nan)
NaN == <<"NaN">>
notna(x) == x # NaN

\* the title of row k: two titles, in turn
TitleOf(k) == IF k % 2 = 1 THEN <<"a">> ELSE <<"b">>
AlsoCalled == {NaN, <<"b">>}
\* a summary of n one-letter words
SummaryOf(n) == Join([i \in 1..n |-> IF i % 2 = 1 THEN <<"a">> ELSE <<"b">>])
\* the summary cells tried: missing, one word, MaxSummaryWords words
Summaries == {NaN, SummaryOf(1), SummaryOf(MaxSummaryWords)}

\* row k of the CSV: its id and url follow from its position
CsvRow(k, title, also, summary) ==
    [id |-> k, title |-> title, also_called |-> also, summary |-> summary,
     url |-> <<"u", k>>]
\* the (also_called, summary) cells of a row: alternative names are tried
\* with the longest summary
RowCells ==
    {c \in AlsoCalled \X Summaries : c[1] = NaN \/ c[2] = SummaryOf(MaxSummaryWords)}
CsvTables ==
    UNION {{[k \in 1..n |-> CsvRow(k, TitleOf(k), c[k][1], c[k][2])] :
              c \in [1..n -> RowCells]} : n \in 0..MaxDocs}

AlsoKnownAs ==
    <<"A", "l", "s", "o", " ", "k", "n", "o", "w", "n", " ", "a", "s", ":", " ">>

\* lines 53-61: full_text of a row whose summary is a string
FullText(row) ==
    LET also_called == IF notna(row.also_called) THEN row.also_called ELSE <<>>
    IN  row.title \o <<".", " ">>
        \o (IF also_called # <<>> THEN AlsoKnownAs \o also_called \o <<".", " ">>
            ELSE <<>>)
        \o row.summary

\* (mutant of RowChunks: chunk_id starts again at 0 for every document)
RowChunksRestart(row, chunks, first_id) ==
    [j \in 1..Len(chunks) |->
        [chunk_id |-> j - 1, title |-> row.title, chunk_text |-> chunks[j],
         source_id |-> row.id, url |-> row.url]]

\* lines 66-74: the rows appended for one document, chunk_id counting on
\* from first_id
RowChunks(row, chunks, first_id) ==
    [j \in 1..Len(chunks) |->
        [chunk_id |-> first_id + (j - 1), title |-> row.title, chunk_text |-> chunks[j],
         source_id |-> row.id, url |-> row.url]]

\* lines 52-74: one iteration of the loop over df.iterrows().  A missing
\* summary makes line 61 (str += float) raise TypeError.
CreateChunksRow ==
    /\ bPc = "chunking"
    /\ bRow < Len(csvRows)
    /\ LET row == csvRows[bRow + 1]
       IN  IF ~notna(row.summary)
           THEN /\ bPc' = "failed"
                /\ bError' = "TypeError"
                /\ UNCHANGED <<bRow, allChunks, chunkId>>
           ELSE LET chunks == chunk_text(FullText(row), DocChunkSize, DocOverlap)
                IN  /\ allChunks' = allChunks \o RowChunks(row, chunks, chunkId)
                    /\ chunkId' = chunkId + Len(chunks)
                    /\ bRow' = bRow + 1
                    /\ UNCHANGED <<bPc, bError>>
    /\ UNCHANGED <<csvRows, chunksDf, builtIndex, store, retriever, lastCall, context>>

\* lines 76-80: the DataFrame is built and returned; line 78 divides by
\* len(df) and raises ZeroDivisionError for an empty CSV
CreateChunksReturn ==
    /\ bPc = "chunking"
    /\ bRow = Len(csvRows)
    /\ IF Len(csvRows) = 0
       THEN /\ bPc' = "failed"
            /\ bError' = "ZeroDivisionError"
            /\ UNCHANGED chunksDf
       ELSE /\ bPc' = "chunked"
            /\ chunksDf' = allChunks
            /\ UNCHANGED bError
    /\ UNCHANGED <<csvRows, bRow, allChunks, chunkId, builtIndex, store, retriever, lastCall, context>>

-----------------------------------------------------------------------------
(* build_index.py *)

\* model.encode: the embedding model is an external, deterministic map from
\* a text to a vector; it is stood in for by a map into one integer
\* dimension (the number of "b" characters of the text)
Embed(text) == Cardinality({i \in DOMAIN text : text[i] = "b"})

\* lines 32-47: texts in row order, encoded in that order, added in that order
IndexOf(chunks_df) == [i \in 1..Len(chunks_df) |-> Embed(chunks_df[i].chunk_text)]

BuildFaissIndex ==
    /\ bPc = "chunked"
    /\ builtIndex' = IndexOf(chunksDf)
    /\ bPc' = "indexed"
    /\ UNCHANGED <<csvRows, bRow, allChunks, chunkId, chunksDf, bError, store, retriever,
                   lastCall, context>>

\* the store directory: faiss_index.bin (has_index, index) and
\* chunks_metadata.pkl (has_meta, chunks_df).  origin tells where the two
\* files come from: "built" when both were written by one run of the build
\* script, "partial" when only the index file of the running build has been
\* written yet.
NoStore == [has_index |-> FALSE, has_meta |-> FALSE, index |-> <<>>, chunks_df |-> <<>>,
            origin |-> "none"]
\* a store that holds an index of zero vectors and a table of zero rows
EmptyStore == [has_index |-> TRUE, has_meta |-> TRUE, index |-> <<>>, chunks_df |-> <<>>,
               origin |-> "external"]

\* lines 58-61: faiss.write_index replaces the index file; the metadata
\* file is still the one that was there, if any
SaveIndexFile ==
    /\ bPc = "indexed"
    /\ store' = [store EXCEPT !.has_index = TRUE, !.index = builtIndex,
                              !.origin = "partial"]
    /\ bPc' = "index_saved"
    /\ UNCHANGED <<csvRows, bRow, allChunks, chunkId, chunksDf, builtIndex, bError,
                   retriever, lastCall, context>>

\* lines 63-79: the embeddings, the metadata file and the config are written
SaveMetadataFile ==
    /\ bPc = "index_saved"
    /\ store' = [store EXCEPT !.has_meta = TRUE, !.chunks_df = chunksDf,
                              !.origin = "built"]
    /\ bPc' = "saved"
    /\ UNCHANGED <<csvRows, bRow, allChunks, chunkId, chunksDf, builtIndex, bError,
                   retriever, lastCall, context>>

-----------------------------------------------------------------------------
(* retriever.py: MedlineRetriever *)

\* largest top_k tried (generate_diagnosis passes 3); the smallest is -1
MaxTopK == 3
Queries == {<<"a">>, <<"b">>}

NoRetriever == [loaded |-> FALSE, index |-> <<>>, chunks_df |-> <<>>, origin |-> "none"]

\* lines 18-25: the retriever holds the index file's vectors and the
\* metadata file's rows as they are; nothing compares the two, and
\* config.pkl is not read
Loaded(st) ==
    [loaded |-> TRUE, index |-> st.index, chunks_df |-> st.chunks_df, origin |-> st.origin]

\* lines 13-29: __init__ of a starting process reads the index file and the
\* metadata file; a missing file makes read_index or read_pickle raise and
\* no retriever is constructed
LoadRetriever ==
    /\ retriever' = IF store.has_index /\ store.has_meta THEN Loaded(store)
                    ELSE NoRetriever
    /\ UNCHANGED <<csvRows, bPc, bRow, allChunks, chunkId, chunksDf, builtIndex, bError,
                   store, lastCall, context>>

\* IndexFlatL2: squared L2 distance
Distance(q, v) == (q - v) * (q - v)

\* position p (0-based) comes before position r in the search order:
\* nearer first, the earlier-inserted vector first among equals
Before(index, q, p, r) ==
    \/ Distance(q, index[p + 1]) < Distance(q, index[r + 1])
    \/ Distance(q, index[p + 1]) = Distance(q, index[r + 1]) /\ p < r

\* the 0-based position at 1-based rank r of the search order, r <= ntotal
PositionAtRank(index, q, r) ==
    CHOOSE p \in 0..(Len(index) - 1) :
        Cardinality({o \in 0..(Len(index) - 1) : Before(index, q, o, p)}) = r - 1

\* index.search(x, k) for k >= 1 (line 46): the labels I[0], k of them; the
\* ranks beyond ntotal are filled with -1
SearchLabels(index, q, k) ==
    [r \in 1..k |-> IF r <= Len(index) THEN PositionAtRank(index, q, r) ELSE -1]

\* the distances D[0]; the ranks beyond ntotal carry the largest float
FloatMax == <<"3.4028235e+38">>
SearchDistances(index, q, k) ==
    [r \in 1..k |-> IF r <= Len(index)
                    THEN Distance(q, index[PositionAtRank(index, q, r) + 1])
                    ELSE FloatMax]

\* index.search(x, k) for k <= 0: retrieve does not test top_k, so what
\* happens is the installed faiss build's choice.  Builds whose wrapper
\* asserts k > 0 raise AssertionError; builds without the assertion return
\* arrays of zero columns for k = 0 and raise ValueError (negative
\* dimensions) for k < 0.
SearchNonPositive(k) ==
    {[raised |-> "AssertionError", labels |-> <<>>, distances |-> <<>>]}
    \cup (IF k = 0
          THEN {[raised |-> "none", labels |-> <<>>, distances |-> <<>>]}
          ELSE {[raised |-> "ValueError", labels |-> <<>>, distances |-> <<>>]})

\* lines 46-49: the outcomes of the search call
Search(index, q, k) ==
    IF k >= 1
    THEN {[raised |-> "none", labels |-> SearchLabels(index, q, k),
           distances |-> SearchDistances(index, q, k)]}
    ELSE SearchNonPositive(k)

\* chunks_df.iloc[idx] is defined for -len <= idx < len
ILocDefined(chunks_df, idx) == -Len(chunks_df) <= idx /\ idx < Len(chunks_df)

\* line 54: chunks_df.iloc[idx]; a negative idx counts from the end
ILoc(chunks_df, idx) ==
    IF idx >= 0 THEN chunks_df[idx + 1] ELSE chunks_df[Len(chunks_df) + idx + 1]

\* lines 55-62: the dict appended for the pair (dist, idx) at position i
ResultRow(chunks_df, i, dist, idx) ==
    LET chunk_info == ILoc(chunks_df, idx)
    IN  [rank |-> i + 1, score |-> dist, title |-> chunk_info.title,
         text |-> chunk_info.chunk_text, url |-> chunk_info.url,
         chunk_id |-> chunk_info.chunk_id]

\* lines 42-64: the outcomes of retrieve(query, top_k) on a loaded
\* retriever: the search output, then either the list of results or the
\* IndexError of the first iloc that is out of bounds
RetrieveOutcomes(r, query, top_k) ==
    {IF found.raised # "none"
     THEN [raised |-> found.raised, labels |-> found.labels, results |-> <<>>]
     ELSE IF \E i \in DOMAIN found.labels : ~ILocDefined(r.chunks_df, found.labels[i])
          THEN [raised |-> "IndexError", labels |-> found.labels, results |-> <<>>]
          ELSE [raised |-> "none", labels |-> found.labels,
                results |-> [i \in DOMAIN found.labels |->
                                ResultRow(r.chunks_df, i - 1, found.distances[i],
                                          found.labels[i])]]
     : found \in Search(r.index, Embed(query), top_k)}

NoCall == [made |-> FALSE, query |-> <<>>, top_k |-> 0, origin |-> "none",
           chunkCount |-> 0, vectorCount |-> 0, raised |-> "none", labels |-> <<>>, results |-> <<>>]

NoContext == [made |-> FALSE, results |-> <<>>, text |-> <<>>]

\* one call of retrieve on the loaded retriever
Retrieve ==
    /\ retriever.loaded
    /\ \E query \in Queries, top_k \in -1..MaxTopK :
         \E out \in RetrieveOutcomes(retriever, query, top_k) :
            lastCall' = [made |-> TRUE, query |-> query, top_k |-> top_k,
                         origin |-> retriever.origin,
                         chunkCount |-> Len(retriever.chunks_df),
                         vectorCount |-> Len(retriever.index),
                         raised |-> out.raised, labels |-> out.labels,
                         results |-> out.results]
    /\ context' = NoContext
    /\ UNCHANGED <<csvRows, bPc, bRow, allChunks, chunkId, chunksDf, builtIndex, bError,
                   store, retriever>>

\* the characters of "[Source: "
SourceLabel == <<"[", "S", "o", "u", "r", "c", "e", ":", " ">>

\* lines 69-71: the part appended for one result,
\* f"[Source: {result['title']}]\n{result['text']}\n"
ContextPart(result) ==
    SourceLabel \o result.title \o <<"]", "\n">> \o result.text \o <<"\n">>

\* line 73: the separator "\n---\n"
ContextSeparator == <<"\n", "-", "-", "-", "\n">>

\* sep.join(parts)
RECURSIVE JoinWith(_, _)
JoinWith(sep, parts) ==
    IF parts = <<>> THEN <<>>
    ELSE IF Len(parts) = 1 THEN parts[1]
    ELSE parts[1] \o sep \o JoinWith(sep, Tail(parts))

\* (mutant of ContextPartsOf: a result whose title an earlier result has
\* is left out)
ContextPartsOfDistinctTitles(results) ==
    LET keep == {i \in DOMAIN results :
                    \A j \in 1..(i - 1) : results[j].title # results[i].title}
        nth(k) == CHOOSE i \in keep : Cardinality({o \in keep : o < i}) = k - 1
    IN  [k \in 1..Cardinality(keep) |-> ContextPart(results[nth(k)])]

\* lines 68-72: context_parts, one part per result, in the order of results
ContextPartsOf(results) == [i \in DOMAIN results |-> ContextPart(results[i])]

\* lines 66-73: format_context(results)
format_context(results) == JoinWith(ContextSeparator, ContextPartsOf(results))

\* format_context applied to the results the last retrieve call returned
\* (retriever.py line 97, rag_pipeline.py line 55)
FormatContext ==
    /\ lastCall.made /\ lastCall.raised = "none"
    /\ ~context.made
    /\ context' = [made |-> TRUE, results |-> lastCall.results,
                   text |-> format_context(lastCall.results)]
    /\ UNCHANGED <<csvRows, bPc, bRow, allChunks, chunkId, chunksDf, builtIndex, bError,
                   store, retriever, lastCall>>

-----------------------------------------------------------------------------
(* rag_pipeline.py: RAGPipeline and ConversationManager *)

\* sessions that share the pipeline
NumSessions == 2
\* process_message calls followed per session
MaxCalls == 2
\* top_k passed by generate_diagnosis (line 54)
DiagnosisTopK == 3

Sessions == 1..NumSessions

\* create_chunks_from_csv as a function of a table without missing summaries
RECURSIVE AllChunksOf(_, _, _)
AllChunksOf(table, k, acc) ==
    IF k > Len(table) THEN acc
    ELSE AllChunksOf(table, k + 1,
             acc \o RowChunks(table[k],
                              chunk_text(FullText(table[k]), DocChunkSize, DocOverlap),
                              Len(acc)))

\* the retriever loaded from the store the build script writes for a table
RetrieverBuiltFrom(table) ==
    [loaded |-> TRUE, index |-> IndexOf(AllChunksOf(table, 1, <<>>)),
     chunks_df |-> AllChunksOf(table, 1, <<>>), origin |-> "built"]

\* the store an earlier run of the build script left for a corpus of one
\* document
PreviousStore ==
    LET table == <<CsvRow(1, TitleOf(1), NaN, SummaryOf(1))>>
    IN  [has_index |-> TRUE, has_meta |-> TRUE,
         index |-> IndexOf(AllChunksOf(table, 1, <<>>)),
         chunks_df |-> AllChunksOf(table, 1, <<>>), origin |-> "built"]

\* the retrievers a pipeline is constructed over: the one loaded from a
\* store of zero vectors, one of a single chunk, one of several chunks
PipelineRetrievers ==
    {Loaded(EmptyStore),
     RetrieverBuiltFrom(<<CsvRow(1, TitleOf(1), NaN, SummaryOf(1))>>),
     RetrieverBuiltFrom(<<CsvRow(1, TitleOf(1), <<"b">>, SummaryOf(MaxSummaryWords)),
                          CsvRow(2, TitleOf(2), NaN, SummaryOf(1))>>)}

\* line 43: self.model.encode raising (the model call is a blocking
\* inference call that can fail)
EncoderFailure == [raised |-> "EncoderError", labels |-> <<>>, results |-> <<>>]

\* lines 54: self.retriever.retrieve(user_symptoms, top_k=3), as the
\* pipeline sees it
PipelineRetrieve(r, user_symptoms) ==
    RetrieveOutcomes(r, user_symptoms, DiagnosisTopK) \cup {EncoderFailure}

\* str.strip()
RECURSIVE Strip(_)
Strip(t) ==
    IF t = <<>> THEN t
    ELSE IF t[1] \in Whitespace THEN Strip(Tail(t))
    ELSE IF t[Len(t)] \in Whitespace THEN Strip(SubSeq(t, 1, Len(t) - 1))
    ELSE t

\* lines 69-79: the generation call and the extraction of its text: the
\* service raises, or answers without content (content is None and .strip()
\* raises AttributeError), or answers with a text
Generate ==
    {[raised |-> "APIError", diagnosis |-> <<>>],
     [raised |-> "AttributeError", diagnosis |-> <<>>],
     [raised |-> "none", diagnosis |-> Strip(<<" ", "d", " ">>)]}

\* lines 82-89: the sources of the results
SourcesOf(results) ==
    [i \in DOMAIN results |->
        [title |-> results[i].title, url |-> results[i].url,
         relevance_score |-> results[i].score]]

\* the response a call returns when no branch of process_message returns
None == [type |-> "None", content |-> <<>>, sources |-> <<>>]

ClosingNotice ==
    <<"Thank you for using the symptom checker. If you have new symptoms, please start a new session.">>

\* lines 135-139: the response of the initial branch
DiagnosisResponse(diagnosis, sources) ==
    [type |-> "diagnosis", content |-> diagnosis, sources |-> sources]

\* lines 143-146: the response of the complete branch
CompleteResponse == [type |-> "complete", content |-> ClosingNotice, sources |-> <<>>]

\* a call that returned a response
Returned(response) == [kind |-> "return", exc |-> "none", response |-> response]

\* (mutant of Propagated: the exception is swallowed and an empty diagnosis
\* returned)
Swallowed(exc) == Returned(DiagnosisResponse(<<>>, <<>>))

\* lines 53-79 and 131-132: neither generate_diagnosis nor process_message
\* has a try statement, so an exception of the retrieval or of the
\* generation leaves process_message as it is
Propagated(exc) == [kind |-> "raise", exc |-> exc, response |-> None]

\* line 134
StageAfterDiagnosis == "complete"

UserMessage(message) == [role |-> "user", content |-> message]
AssistantMessage(message) == [role |-> "assistant", content |-> message]

\* (mutant of AddMessage: conversation_history is one list shared by every
\* ConversationManager)
AddMessageShared(h, s, m) == [t \in DOMAIN h |-> Append(h[t], m)]

\* lines 107 and 114: self.conversation_history.append(...), the list being
\* the one line 102 created for this ConversationManager
AddMessage(h, s, m) == [h EXCEPT ![s] = Append(@, m)]

\* lines 127-132 and 141-146: process_message up to its first blocking
\* call, or to its return when no call is made
PMBegin(s, user_input) ==
    /\ pmPc[s] = "idle"
    /\ calls[s] < MaxCalls
    /\ history' = AddMessage(history, s, UserMessage(user_input))
    /\ calls' = [calls EXCEPT ![s] = @ + 1]
    /\ IF stage[s] = "initial"
       THEN /\ stage' = [stage EXCEPT ![s] = "diagnosis"]
            /\ pmPc' = [pmPc EXCEPT ![s] = "retrieve"]
            /\ pmInput' = [pmInput EXCEPT ![s] = user_input]
            /\ UNCHANGED <<outcomes, failures>>
       ELSE /\ outcomes' = [outcomes EXCEPT ![s] =
                   Append(@, Returned(IF stage[s] = "complete"
                                      THEN CompleteResponse ELSE None))]
            /\ failures' = [failures EXCEPT ![s] = Append(@, "none")]
            /\ UNCHANGED <<stage, pmPc, pmInput>>
    /\ UNCHANGED <<pmResults, nRetrieve, nGenerate, pipeline>>

\* a call of process_message by the holder of the ConversationManager
ProcessMessageBegin(s) == \E user_input \in Queries : PMBegin(s, user_input)

\* generate_diagnosis lines 54-55: the retrieval
ProcessMessageRetrieve(s) ==
    /\ pmPc[s] = "retrieve"
    /\ nRetrieve' = [nRetrieve EXCEPT ![s] = @ + 1]
    /\ \E out \in PipelineRetrieve(pipeline, pmInput[s]) :
        IF out.raised # "none"
        THEN /\ outcomes' = [outcomes EXCEPT ![s] = Append(@, Propagated(out.raised))]
             /\ failures' = [failures EXCEPT ![s] = Append(@, out.raised)]
             /\ pmPc' = [pmPc EXCEPT ![s] = "idle"]
             /\ UNCHANGED pmResults
        ELSE /\ pmResults' = [pmResults EXCEPT ![s] = out.results]
             /\ pmPc' = [pmPc EXCEPT ![s] = "generate"]
             /\ UNCHANGED <<outcomes, failures>>
    /\ UNCHANGED <<stage, history, pmInput, calls, nGenerate, pipeline>>

\* generate_diagnosis lines 60-94 and process_message lines 133-139: the
\* generation and the return
ProcessMessageGenerate(s) ==
    /\ pmPc[s] = "generate"
    /\ nGenerate' = [nGenerate EXCEPT ![s] = @ + 1]
    /\ pmPc' = [pmPc EXCEPT ![s] = "idle"]
    /\ \E gen \in Generate :
        /\ failures' = [failures EXCEPT ![s] = Append(@, gen.raised)]
        /\ IF gen.raised # "none"
           THEN /\ outcomes' = [outcomes EXCEPT ![s] = Append(@, Propagated(gen.raised))]
                /\ UNCHANGED <<stage, history>>
           ELSE /\ history' = AddMessage(history, s, AssistantMessage(gen.diagnosis))
                /\ stage' = [stage EXCEPT ![s] = StageAfterDiagnosis]
                /\ outcomes' = [outcomes EXCEPT ![s] =
                       Append(@, Returned(DiagnosisResponse(gen.diagnosis,
                                                            SourcesOf(pmResults[s]))))]
    /\ UNCHANGED <<pmInput, pmResults, calls, nRetrieve, pipeline>>

\* lines 100-103 for every session, over a pipeline constructed once
InitConv ==
    /\ pipeline \in PipelineRetrievers
    /\ stage = [s \in Sessions |-> "initial"]
    /\ history = [s \in Sessions |-> <<>>]
    /\ pmPc = [s \in Sessions |-> "idle"]
    /\ pmInput = [s \in Sessions |-> <<>>]
    /\ pmResults = [s \in Sessions |-> <<>>]
    /\ calls = [s \in Sessions |-> 0]
    /\ nRetrieve = [s \in Sessions |-> 0]
    /\ nGenerate = [s \in Sessions |-> 0]
    /\ outcomes = [s \in Sessions |-> <<>>]
    /\ failures = [s \in Sessions |-> <<>>]

-----------------------------------------------------------------------------
(* src/ui/app.py: main() over the session state of each browser session *)

\* what the text area holds when the button is pressed: symptoms, or
\* only whitespace
UIInputs == Queries \cup {<<" ">>}

\* 'sources' not in st.session_state
NoSources == <<"unset">>

\* lines 81-98: what a run of main() that reaches its end offers: the
\* "Start New Assessment" button when diagnosis_complete (81-95), the
\* symptom form when messages is empty (98-143), otherwise neither
MainPage(s) ==
    IF uiComplete[s] THEN "reset"
    ELSE IF Len(uiMessages[s]) = 0 THEN "form"
    ELSE "nothing"

\* lines 129-141: main() after process_message: with a response, the
\* assistant message is appended, diagnosis_complete and sources are set
\* and st.rerun() renders the page again; when process_message raised, or
\* returned None (response['content'] raises TypeError), the run ends
\* there, leaving the form it had rendered and the exception on the page
UIAfterProcessMessage(s, outcome) ==
    IF outcome.kind = "return" /\ outcome.response.type # "None"
    THEN /\ uiMessages' = [uiMessages EXCEPT ![s] =
                Append(@, AssistantMessage(outcome.response.content))]
         /\ uiComplete' = [uiComplete EXCEPT ![s] = TRUE]
         /\ uiSources' = [uiSources EXCEPT ![s] = outcome.response.sources]
         /\ uiPage' = [uiPage EXCEPT ![s] = "reset"]
    ELSE /\ uiPage' = [uiPage EXCEPT ![s] = "form_exception"]
         /\ UNCHANGED <<uiMessages, uiComplete, uiSources>>

\* a step of process_message inside main(): main() goes on when the call
\* has ended
UIStep(s, step) ==
    /\ uiPage[s] = "running"
    /\ step
    /\ IF pmPc'[s] = "idle"
       THEN UIAfterProcessMessage(s, outcomes'[s][Len(outcomes'[s])])
       ELSE UNCHANGED uiVars

\* lines 113-143: "Get Diagnosis" pressed on the rendered form
UISubmit(s) ==
    /\ uiPage[s] \in {"form", "form_error"}
    /\ \E user_input \in UIInputs :
        IF Strip(user_input) = <<>>
        THEN /\ uiPage' = [uiPage EXCEPT ![s] = "form_error"]
             /\ UNCHANGED <<uiMessages, uiComplete, uiSources, convVars>>
        ELSE /\ uiMessages' = [uiMessages EXCEPT ![s] = Append(@, UserMessage(user_input))]
             /\ uiPage' = [uiPage EXCEPT ![s] = "running"]
             /\ UNCHANGED <<uiComplete, uiSources>>
             /\ PMBegin(s, user_input)

UIRetrieve(s) == UIStep(s, ProcessMessageRetrieve(s))

UIGenerate(s) == UIStep(s, ProcessMessageGenerate(s))

\* lines 88-94: "Start New Assessment" pressed: messages emptied, a new
\* ConversationManager over the cached pipeline, diagnosis_complete False,
\* and st.rerun() renders the page again
UIReset(s) ==
    /\ uiPage[s] = "reset"
    /\ uiMessages' = [uiMessages EXCEPT ![s] = <<>>]
    /\ uiComplete' = [uiComplete EXCEPT ![s] = FALSE]
    /\ stage' = [stage EXCEPT ![s] = "initial"]
    /\ history' = [history EXCEPT ![s] = <<>>]
    /\ calls' = [calls EXCEPT ![s] = 0]
    /\ nRetrieve' = [nRetrieve EXCEPT ![s] = 0]
    /\ nGenerate' = [nGenerate EXCEPT ![s] = 0]
    /\ outcomes' = [outcomes EXCEPT ![s] = <<>>]
    /\ failures' = [failures EXCEPT ![s] = <<>>]
    /\ uiPage' = [uiPage EXCEPT ![s] = "form"]
    /\ UNCHANGED <<uiSources, pmPc, pmInput, pmResults, pipeline>>

\* a widget left on the page by a run that ended in an exception is used:
\* main() runs again from its top over the session state
UIRerun(s) ==
    /\ uiPage[s] = "form_exception"
    /\ uiPage' = [uiPage EXCEPT ![s] = MainPage(s)]
    /\ UNCHANGED <<uiMessages, uiComplete, uiSources, convVars>>

\* lines 36-44 (initialize_session_state) and the first run of main()
InitUI ==
    /\ uiMessages = [s \in Sessions |-> <<>>]
    /\ uiComplete = [s \in Sessions |-> FALSE]
    /\ uiSources = [s \in Sessions |-> NoSources]
    /\ uiPage = [s \in Sessions |-> "form"]

-----------------------------------------------------------------------------
(* Specifications of the chunker and of the build and retrieval *)

NoSessions == <<>>
ConvIdle ==
    /\ stage = NoSessions /\ history = NoSessions /\ pmPc = NoSessions
    /\ pmInput = NoSessions /\ pmResults = NoSessions /\ calls = NoSessions
    /\ nRetrieve = NoSessions /\ nGenerate = NoSessions /\ outcomes = NoSessions
    /\ failures = NoSessions
    /\ pipeline = NoRetriever

UIIdle ==
    /\ uiMessages = NoSessions /\ uiComplete = NoSessions
    /\ uiSources = NoSessions /\ uiPage = NoSessions

ChunkIdle ==
    /\ ctText = <<>> /\ ctSize = 1 /\ ctOverlap = 0 /\ ctPc = "idle"
    /\ ctWords = <<>> /\ ctChunks = <<>> /\ ctStart = 0 /\ ctResult = <<>>

IndexIdle ==
    /\ csvRows = <<>> /\ bPc = "idle" /\ bRow = 0 /\ allChunks = <<>> /\ chunkId = 0
    /\ chunksDf = <<>> /\ builtIndex = <<>> /\ bError = "none" /\ store = NoStore
    /\ retriever = NoRetriever /\ lastCall = NoCall /\ context = NoContext

Texts == UNION {[1..n -> Alphabet] : n \in 0..MaxLen}

InitChunk ==
    /\ ctText \in Texts
    /\ ctSize \in 1..MaxChunkSize
    /\ ctOverlap \in 0..MaxChunkSize
    /\ ctPc = "entry"
    /\ ctWords = <<>> /\ ctChunks = <<>> /\ ctStart = 0 /\ ctResult = <<>>
    /\ IndexIdle
    /\ ConvIdle
    /\ UIIdle

NextChunk ==
    \/ ChunkEntry /\ UNCHANGED <<indexVars, convVars, uiVars>>
    \/ ChunkLoop /\ UNCHANGED <<indexVars, convVars, uiVars>>
    \/ ChunkReturn /\ UNCHANGED <<indexVars, convVars, uiVars>>

SpecChunk == InitChunk /\ [][NextChunk]_vars

InitIndex ==
    /\ csvRows \in CsvTables
    /\ bPc = "chunking" /\ bRow = 0 /\ allChunks = <<>> /\ chunkId = 0
    /\ chunksDf = <<>> /\ builtIndex = <<>> /\ bError = "none"
    /\ store \in {NoStore, EmptyStore, PreviousStore}
    /\ retriever = NoRetriever
    /\ lastCall = NoCall
    /\ context = NoContext
    /\ ChunkIdle
    /\ ConvIdle
    /\ UIIdle

NextIndex ==
    \/ CreateChunksRow /\ UNCHANGED <<chunkVars, convVars, uiVars>>
    \/ CreateChunksReturn /\ UNCHANGED <<chunkVars, convVars, uiVars>>
    \/ BuildFaissIndex /\ UNCHANGED <<chunkVars, convVars, uiVars>>
    \/ SaveIndexFile /\ UNCHANGED <<chunkVars, convVars, uiVars>>
    \/ SaveMetadataFile /\ UNCHANGED <<chunkVars, convVars, uiVars>>
    \/ LoadRetriever /\ UNCHANGED <<chunkVars, convVars, uiVars>>
    \/ Retrieve /\ UNCHANGED <<chunkVars, convVars, uiVars>>
    \/ FormatContext /\ UNCHANGED <<chunkVars, convVars, uiVars>>

SpecIndex == InitIndex /\ [][NextIndex]_vars

InitConvSpec ==
    /\ InitConv
    /\ ChunkIdle
    /\ IndexIdle
    /\ UIIdle

NextConv ==
    \/ \E s \in Sessions : ProcessMessageBegin(s) /\ UNCHANGED <<chunkVars, indexVars, uiVars>>
    \/ \E s \in Sessions : ProcessMessageRetrieve(s) /\ UNCHANGED <<chunkVars, indexVars, uiVars>>
    \/ \E s \in Sessions : ProcessMessageGenerate(s) /\ UNCHANGED <<chunkVars, indexVars, uiVars>>

SpecConv == InitConvSpec /\ [][NextConv]_vars

InitUISpec ==
    /\ InitConv
    /\ InitUI
    /\ ChunkIdle
    /\ IndexIdle

NextUI ==
    \/ \E s \in Sessions : UISubmit(s) /\ UNCHANGED <<chunkVars, indexVars>>
    \/ \E s \in Sessions : UIRetrieve(s) /\ UNCHANGED <<chunkVars, indexVars>>
    \/ \E s \in Sessions : UIGenerate(s) /\ UNCHANGED <<chunkVars, indexVars>>
    \/ \E s \in Sessions : UIReset(s) /\ UNCHANGED <<chunkVars, indexVars>>
    \/ \E s \in Sessions : UIRerun(s) /\ UNCHANGED <<chunkVars, indexVars>>

SpecUI == InitUISpec /\ [][NextUI]_vars

-----------------------------------------------------------------------------
(* Claims about chunk_text (SpecChunk) *)

ctReturned == ctPc = "done"
ctWordCount == Len(Split(ctText))

\* the first k words and the last k words of a word sequence
FirstWords(ws, k) == SubSeq(ws, 1, Min(k, Len(ws)))
LastWords(ws, k) == SubSeq(ws, Len(ws) - Min(k, Len(ws)) + 1, Len(ws))

\* C5: a call with overlap >= chunk_size is rejected with an invalid-argument
\* error: once the call has been entered it is in the raised state, it
\* neither runs the loop nor returns chunks.  (chunk_text has no raise
\* statement, so the raised state does not occur.)
C5_OverlapRejected ==
    (ctOverlap >= ctSize /\ ctPc # "idle") => ctPc \in {"entry", "raised"}

\* the loop of a call with overlap >= chunk_size and more than chunk_size
\* words never reaches its exit: the loop condition holds after every
\* iteration
C5_LoopCannotEnd ==
    (ctOverlap >= ctSize /\ ctPc = "loop") => LoopContinues(ctWords, ctStart)

\* C6: for a text of more than chunk_size words and 0 <= overlap <
\* chunk_size, every two consecutive returned chunks share exactly overlap
\* words: the last overlap words of chunk i are the first overlap words of
\* chunk i+1, the final pair included.
C6_ConsecutiveShareOverlap ==
    (ctReturned /\ ctWordCount > ctSize /\ ctOverlap < ctSize) =>
        \A i \in 1..(Len(ctResult) - 1) :
            LET w1 == Split(ctResult[i])
                w2 == Split(ctResult[i + 1])
            IN  /\ Len(w1) >= ctOverlap
                /\ Len(w2) >= ctOverlap
                /\ LastWords(w1, ctOverlap) = FirstWords(w2, ctOverlap)

\* the first chunk followed by every later chunk without its first k words
RECURSIVE StripAndConcat(_, _, _)
StripAndConcat(chunks, k, i) ==
    IF i > Len(chunks) THEN <<>>
    ELSE LET ws == Split(chunks[i])
         IN  (IF i = 1 THEN ws ELSE SubSeq(ws, Min(k, Len(ws)) + 1, Len(ws)))
             \o StripAndConcat(chunks, k, i + 1)

\* C7: for a text of more than chunk_size words and 0 <= overlap <
\* chunk_size, the first chunk followed by each later chunk stripped of its
\* first overlap words is exactly the whitespace-split word sequence of the
\* text.
C7_StrippedChunksReconstruct ==
    (ctReturned /\ ctWordCount > ctSize /\ ctOverlap < ctSize) =>
        StripAndConcat(ctResult, ctOverlap, 1) = Split(ctText)

\* a returned call with overlap > 0 whose last chunk is shorter than overlap
C7_Witness ==
    /\ ctReturned /\ ctWordCount > ctSize /\ ctOverlap < ctSize /\ ctOverlap > 0
    /\ Len(ctResult) >= 3
    /\ Len(Split(ctResult[Len(ctResult)])) < ctOverlap
    /\ \E i, j \in DOMAIN ctWords : ctWords[i] # ctWords[j]

\* C8: for a text of at most chunk_size words chunk_text returns exactly one
\* chunk and that chunk is the text itself, unchanged, whatever overlap is.
C8_ShortTextReturnedWhole ==
    (ctReturned /\ ctWordCount <= ctSize) => ctResult = <<ctText>>

\* a returned call on a short text with irregular whitespace and an overlap
\* no smaller than chunk_size
C8_Witness ==
    /\ ctReturned /\ ctWordCount <= ctSize /\ ctWordCount >= 2
    /\ ctText # Join(Split(ctText))
    /\ ctOverlap >= ctSize

-----------------------------------------------------------------------------
(* Claims about create_chunks_from_csv (SpecIndex) *)

\* the chunk_text values of the rows of a table that come from document d
ChunksOfDoc(table, d) ==
    LET pos == {i \in DOMAIN table : table[i].source_id = d}
        nth(k) == CHOOSE i \in pos : Cardinality({o \in pos : o < i}) = k - 1
    IN  [k \in 1..Cardinality(pos) |-> table[nth(k)].chunk_text]

\* C9: the emitted chunk_id values are 0, 1, ..., total-1 without gap or
\* repeat, in corpus order: the chunk_id of every row is its row position,
\* the rows of document d precede those of document d+1, and the rows of
\* one document are its windows in window order.
C9_DenseChunkIds ==
    /\ \A i \in DOMAIN allChunks : allChunks[i].chunk_id = i - 1
    /\ \A i \in DOMAIN chunksDf : chunksDf[i].chunk_id = i - 1
    /\ \A i, j \in DOMAIN allChunks :
          i < j => allChunks[i].source_id <= allChunks[j].source_id
    /\ \A d \in 1..bRow :
          ChunksOfDoc(allChunks, d) = chunk_text(FullText(csvRows[d]), DocChunkSize, DocOverlap)

\* the table of two documents of several windows each has been returned
C9_Witness ==
    /\ bPc = "chunked"
    /\ Len(csvRows) >= 2
    /\ \A d \in 1..2 : Len(ChunksOfDoc(chunksDf, d)) >= 2

-----------------------------------------------------------------------------
(* Claims about MedlineRetriever.retrieve (SpecIndex) *)

\* C1: on an index built over the chunk table of create_chunks_from_csv,
\* every result of retrieve(query, top_k), top_k >= 1, also top_k larger
\* than the number of chunks, describes the chunk whose chunk_id is the
\* ordinal position the search returned for that rank.
C1_ResultIsChunkAtReturnedPosition ==
    (lastCall.made /\ lastCall.origin = "built" /\ lastCall.top_k >= 1
        /\ lastCall.raised = "none") =>
        \A i \in DOMAIN lastCall.results :
            lastCall.results[i].chunk_id = lastCall.labels[i]

\* C3: for every top_k >= 1 retrieve returns at most min(top_k, chunkCount)
\* results; on an index of zero vectors it returns the empty sequence and
\* raises nothing.
C3_AtMostMinResults ==
    (lastCall.made /\ lastCall.top_k >= 1) =>
        /\ lastCall.raised = "none"
        /\ Len(lastCall.results) <= Min(lastCall.top_k, lastCall.chunkCount)

\* C4: retrieve with top_k <= 0 fails with InvalidArgumentError, for every
\* query and index, and returns no result list.
C4_NonPositiveTopKRejected ==
    (lastCall.made /\ lastCall.top_k <= 0) => lastCall.raised = "InvalidArgumentError"

-----------------------------------------------------------------------------
(* Claims about ConversationManager.process_message (SpecConv) *)

\* the sessions that exist
Live == DOMAIN stage

\* the number of assistant messages of a history
AssistantCount(h) == Cardinality({i \in DOMAIN h : h[i].role = "assistant"})

\* C2: in a fresh session the first process_message call moves the stage
\* from initial to complete with exactly one retrieval and one generation
\* call; every later call returns the closing notice, makes no further
\* retrieval or generation call, and leaves the stage at complete.
C2_OneCycleThenClosingNotice ==
    \A s \in Live :
        (calls[s] >= 1 /\ pmPc[s] = "idle") =>
            /\ stage[s] = "complete"
            /\ nRetrieve[s] = 1 /\ nGenerate[s] = 1
            /\ outcomes[s][1].kind = "return"
            /\ outcomes[s][1].response.type = "diagnosis"
            /\ \A k \in 2..Len(outcomes[s]) : outcomes[s][k] = Returned(CompleteResponse)

\* C2, the part that the code keeps: when the first call of a session
\* returns normally, all of the above holds of the session from then on.
C2_HoldsWhenFirstCallReturns ==
    \A s \in Live :
        (Len(outcomes[s]) >= 1 /\ outcomes[s][1].kind = "return") =>
            /\ stage[s] = "complete"
            /\ nRetrieve[s] = 1 /\ nGenerate[s] = 1
            /\ outcomes[s][1].response.type = "diagnosis"
            /\ \A k \in 2..Len(outcomes[s]) : outcomes[s][k] = Returned(CompleteResponse)

-----------------------------------------------------------------------------
(* Claims about MedlineRetriever.__init__ (SpecIndex) *)

\* C11: loading mismatched artifacts is fatal: when the rows of the loaded
\* chunk table and the vectors of the loaded index differ in number, no
\* MedlineRetriever is constructed and no retrieve call is served from
\* that state.
C11_MismatchedArtifactsNotLoaded ==
    /\ retriever.loaded => Len(retriever.index) = Len(retriever.chunks_df)
    /\ lastCall.made => lastCall.vectorCount = lastCall.chunkCount

-----------------------------------------------------------------------------
(* Claims about MedlineRetriever.format_context (SpecIndex) *)

\* the pieces of a text between the occurrences of a separator
RECURSIVE PiecesFrom(_, _, _, _, _)
PiecesFrom(text, sep, i, cur, acc) ==
    IF i > Len(text) THEN Append(acc, cur)
    ELSE IF i + Len(sep) - 1 <= Len(text) /\ SubSeq(text, i, i + Len(sep) - 1) = sep
         THEN PiecesFrom(text, sep, i + Len(sep), <<>>, Append(acc, cur))
         ELSE PiecesFrom(text, sep, i + 1, Append(cur, text[i]), acc)

\* the labeled block of a title and a text
LabeledBlock(title, text) ==
    <<"[", "S", "o", "u", "r", "c", "e", ":", " ">> \o title \o <<"]", "\n">>
    \o text \o <<"\n">>

\* C12: format_context emits exactly one labeled block per element of its
\* input, in the order of the input, the blocks separated by the separator
\* line; results of the same title are neither merged nor dropped, and the
\* empty list gives the empty string.
C12_OneBlockPerResultInOrder ==
    context.made =>
        IF context.results = <<>>
        THEN context.text = <<>>
        ELSE PiecesFrom(context.text, <<"\n", "-", "-", "-", "\n">>, 1, <<>>, <<>>)
             = [i \in DOMAIN context.results |->
                   LabeledBlock(context.results[i].title, context.results[i].text)]

\* a context made of three results, two of one title with different texts
\* and one of another title
C12_Witness ==
    /\ context.made
    /\ Len(context.results) >= 3
    /\ \E i, j, k \in DOMAIN context.results :
        /\ i < j
        /\ context.results[i].title = context.results[j].title
        /\ context.results[i].text # context.results[j].text
        /\ context.results[k].title # context.results[i].title

\* the context of an empty result list has been made
C12_EmptyListFormatted == ~(context.made /\ context.results = <<>>)

-----------------------------------------------------------------------------
(* Claims about sessions sharing one pipeline (SpecConv) *)

\* the step is one of session t's process_message
StepOf(t) ==
    \/ calls'[t] # calls[t]
    \/ nRetrieve'[t] # nRetrieve[t]
    \/ nGenerate'[t] # nGenerate[t]

\* C13: with several sessions over one pipeline, under every interleaving
\* of the steps of their process_message calls, a step that is not of
\* session t leaves t's stage, history and call state as they are, and no
\* step changes the pipeline's index or chunk table.
C13_SessionsIsolated ==
    [][/\ \A t \in Live :
            ~StepOf(t) =>
                /\ stage'[t] = stage[t]
                /\ history'[t] = history[t]
                /\ pmPc'[t] = pmPc[t]
                /\ pmInput'[t] = pmInput[t]
                /\ pmResults'[t] = pmResults[t]
       /\ pipeline' = pipeline]_vars

\* two sessions are inside process_message at once, one waiting for the
\* generation and one for the retrieval, with different histories
C13_Witness ==
    \E s, t \in Live :
        /\ s # t
        /\ pmPc[s] = "generate"
        /\ pmPc[t] = "retrieve"
        /\ history[s] # history[t]

\* C14: after any sequence of process_message calls on one
\* ConversationManager, failed ones included, the stage seen between
\* calls is "initial" or "complete", and every call that returned has
\* returned a response of type "diagnosis" or "complete".
C14_StageInitialOrComplete ==
    \A s \in Live :
        /\ pmPc[s] = "idle" => stage[s] \in {"initial", "complete"}
        /\ \A k \in DOMAIN outcomes[s] :
            outcomes[s][k].kind = "return" =>
                outcomes[s][k].response.type \in {"diagnosis", "complete"}

-----------------------------------------------------------------------------
(* Claims about the UI session (SpecUI) *)

\* C15: in every reachable state of a UI session, states after a
\* submission whose process_message failed included, the page main()
\* renders offers the symptom form or the "Start New Assessment" reset:
\* whenever no run of main() is under way, main() over the session state
\* offers one of the two, and so does the page on the screen.
C15_FormOrResetOffered ==
    \A s \in DOMAIN uiPage :
        uiPage[s] # "running" =>
            /\ MainPage(s) \in {"form", "reset"}
            /\ uiPage[s] # "nothing"

====
